---- MODULE Spec2Model ----
(***************************************************************************)
(* Historical candle retrieval and caching (HistoricalData in              *)
(* services/coinbase/historicaldata.py) and the backward pagination with   *)
(* retry of fetch_coinbase_data (trend_detection.py).                      *)
(*                                                                         *)
(* Times are unix seconds.  A datetime is a number of sub-second ticks     *)
(* (SubSecond ticks per second; Python has 10^6), so that timestamp() and  *)
(* int() truncate as they do in the code.  A cache file is an element of   *)
(* the function `cache`, whose domain is the set of file names that exist  *)
(* in CACHE_DIR.  MD5 is taken to be collision free on the key strings.    *)
(***************************************************************************)
EXTENDS Integers, Sequences, FiniteSets, TLC

VARIABLES
    program,        \* which entry point runs in this process
    market,         \* the candles the upstream API has to deliver in this run
    now,            \* the wall clock, time.time(), in seconds
    cache,          \* CACHE_DIR: file name -> file contents
    pc,             \* position of get_historical_data
    req,            \* arguments of the running call
    current_start,  \* datetime, loop variable
    current_end,    \* datetime
    cache_key,      \* key of the current chunk
    all_candles,    \* accumulated result
    seen_candles,   \* set of (start, close) already admitted
    result,         \* value returned by the last call
    ncalls,         \* number of calls made so far
    reads,          \* history: clock readings of the chunk being looked up
    chunks,         \* history: the chunks of the running call and their source
    origin,         \* history: file name -> the chunk and request that wrote it
    tr,             \* state of fetch_coinbase_data
    calls,          \* history: the calls of _get_cache_key and their keys
    fs,             \* one cache file and the callers that read and write it
    clears,         \* history: the files removed by each call of clear_cache
    svc             \* state of the CoinbaseService operation that runs

vars == <<program, market, now, cache, pc, req, current_start, current_end,
          cache_key, all_candles, seen_candles, result, ncalls, reads, chunks,
          origin, tr, calls, fs, clears, svc>>

hdvars == <<cache, pc, req, current_start, current_end, cache_key, all_candles,
            seen_candles, result, ncalls, reads, chunks, origin>>

-----------------------------------------------------------------------------
(* Program constants *)

CACHE_TTL == 3600

LIVE_WINDOW == 3600

HOUR == 3600

CHUNK_SIZE_DEFAULT == 300

max_retries == 3

TREND_CHUNK_HOURS == 350

MALFORMED_DELAY == 1

\* the most candles the upstream API returns for one request
API_MAX_CANDLES == 350

\* every granularity gets the default chunk size
CHUNK_SIZE_CANDLES_default(granularity) == CHUNK_SIZE_DEFAULT

CHUNK_SIZE_CANDLES(granularity) ==
    CASE granularity = "ONE_MINUTE"     -> 5
      [] granularity = "FIVE_MINUTE"    -> 25
      [] granularity = "TEN_MINUTE"     -> 50
      [] granularity = "FIFTEEN_MINUTE" -> 75
      [] granularity = "THIRTY_MINUTE"  -> 150
      [] granularity = "ONE_HOUR"       -> 300
      [] granularity = "SIX_HOUR"       -> 1800
      [] granularity = "ONE_DAY"        -> 7200
      [] OTHER                          -> CHUNK_SIZE_DEFAULT

\* seconds per candle of the granularities of the table
GranularitySeconds(granularity) ==
    CASE granularity = "ONE_MINUTE"     -> 60
      [] granularity = "FIVE_MINUTE"    -> 300
      [] granularity = "TEN_MINUTE"     -> 600
      [] granularity = "FIFTEEN_MINUTE" -> 900
      [] granularity = "THIRTY_MINUTE"  -> 1800
      [] granularity = "ONE_HOUR"       -> HOUR
      [] granularity = "SIX_HOUR"       -> 6 * HOUR
      [] granularity = "ONE_DAY"        -> 24 * HOUR

TableGranularities ==
    {"ONE_MINUTE", "FIVE_MINUTE", "TEN_MINUTE", "FIFTEEN_MINUTE",
     "THIRTY_MINUTE", "ONE_HOUR", "SIX_HOUR", "ONE_DAY"}

(* Bounds of the model *)

SubSecond == 2      \* datetime ticks per second
MaxTicks == 2       \* clock steps of one hour after the initial time
MaxCalls == 2       \* calls of get_historical_data in one run
MaxResp == 1        \* candles in one upstream response
MaxOps == 2         \* cache operations of the callers that share one file
MaxClears == 2      \* calls of clear_cache in one run
MaxDelivered == 2   \* candles in one upstream response where candles repeat
MaxTime == 2        \* seconds that pass during close_all_positions
MaxLatency == 1     \* seconds that get_order takes to answer
MaxPolls == 3       \* status requests of one monitor call

HalfHour == HOUR \div 2
QuarterHour == HOUR \div 4

Products == {"BTC-USD"}

\* requested ranges: start, end (seconds) and granularity
Ranges == {<<0, 5 * HOUR + HalfHour, "ONE_MINUTE">>,
           <<HalfHour, 5 * HOUR + HalfHour, "ONE_MINUTE">>,
           <<HOUR + HalfHour, 6 * HOUR + HalfHour, "ONE_MINUTE">>}

InitialNow == 6 * HOUR

\* granularities given to the chunk planner; the last one is not in the table
PlannerGranularities ==
    {"ONE_MINUTE", "FIVE_MINUTE", "TEN_MINUTE", "FIFTEEN_MINUTE",
     "THIRTY_MINUTE", "ONE_HOUR", "SIX_HOUR", "ONE_DAY", "TWO_HOUR"}

\* ranges of fetch_coinbase_data: start and end, in hours
TrendRanges == {<<0, 100>>, <<0, 350>>, <<50, 750>>}

-----------------------------------------------------------------------------
(* datetime and timedelta *)

datetime(seconds) == seconds * SubSecond

timestamp(dt) == dt \div SubSecond

timedelta_hours(h) == h * HOUR * SubSecond

Min(a, b) == IF a < b THEN a ELSE b

BoundedSeq(S, n) == UNION {[1..k -> S] : k \in 0..n}

Range(s) == {s[i] : i \in DOMAIN s}

-----------------------------------------------------------------------------
(* Cache key *)

md5(key_parts) == key_parts

\* the key with the end always rounded down to the hour
_get_cache_key_rounded(product_id, start, end, granularity, current_time) ==
    md5(product_id \o "_" \o ToString(start - (start % HOUR)) \o "_"
        \o ToString(end - (end % HOUR)) \o "_" \o granularity)

\* the key with both bounds rounded down to the day
_get_cache_key_daily(product_id, start, end, granularity, current_time) ==
    md5(product_id \o "_" \o ToString(start - (start % (24 * HOUR))) \o "_"
        \o ToString(end - (end % (24 * HOUR))) \o "_" \o granularity)

\* the key without the granularity
_get_cache_key_no_granularity(product_id, start, end, granularity, current_time) ==
    LET start_hour == start - (start % HOUR)
        end_hour == IF current_time - end < LIVE_WINDOW
                    THEN end
                    ELSE end - (end % HOUR)
    IN md5(product_id \o "_" \o ToString(start_hour) \o "_"
           \o ToString(end_hour))

_get_cache_key(product_id, start, end, granularity, current_time) ==
    LET start_hour == start - (start % HOUR)
        end_hour == IF current_time - end < LIVE_WINDOW
                    THEN end
                    ELSE end - (end % HOUR)
        key_parts == product_id \o "_" \o ToString(start_hour) \o "_"
                     \o ToString(end_hour) \o "_" \o granularity
    IN md5(key_parts)

CacheFile(key) == key \o ".json"

-----------------------------------------------------------------------------
(* Candles and their serialisation *)

\* A Candle object of the SDK; open, high, low and volume are carried along
\* unchanged by every operation; where they tell nothing apart they are left
\* out.
CandleObjects ==
    {[start |-> 0, close |-> 1],
     [start |-> 5 * HOUR, close |-> 1],
     [start |-> 5 * HOUR, close |-> 2],
     [start |-> 5 * HOUR + QuarterHour, close |-> 1]}

\* the candles that exist upstream in one run: two of them, one of which
\* starts at the boundary of the first and the second chunk of the long range
Markets ==
    {m \in SUBSET CandleObjects :
        Cardinality(m) = 2 /\ [start |-> 5 * HOUR, close |-> 1] \in m}

_convert_candle_to_dict(candle) ==
    [k \in DOMAIN candle \cup {"time"} |->
        IF k = "time" THEN candle.start ELSE candle[k]]

candle_key(candle) == <<candle.start, candle.close>>

\* json.dump writes a dict as its members and a list as its items;
\* json.load builds the dict back from the members.
json_object(d) == {<<k, d[k]>> : k \in DOMAIN d}

json_dict(o) == [k \in {m[1] : m \in o} |-> (CHOOSE m \in o : m[1] = k)[2]]

json_dump(cache_data) ==
    [timestamp |-> cache_data.timestamp,
     candles |-> [i \in DOMAIN cache_data.candles |->
                    json_object(cache_data.candles[i])]]

\* a file that was cut short, or is empty: not a JSON document
Truncated == [eof |-> TRUE]

JSONDecodeError(text) == "eof" \in DOMAIN text

\* the dict of a JSON document, with the members it has
json_load(text) ==
    [k \in DOMAIN text |->
        IF k = "candles"
        THEN [i \in DOMAIN text.candles |-> json_dict(text.candles[i])]
        ELSE text[k]]

\* the file makes lines 64-79 raise when it is read to the end: it is not
\* JSON, or a member that is read is missing
Unreadable(text) ==
    \/ JSONDecodeError(text)
    \/ "timestamp" \notin DOMAIN text
    \/ "candles" \notin DOMAIN text

-----------------------------------------------------------------------------
(* FetchCache *)

NoCandles == [hit |-> FALSE, candles |-> <<>>]

RemoveFile(files, name) == [f \in (DOMAIN files) \ {name} |-> files[f]]

WriteFile(files, name, text) ==
    [f \in (DOMAIN files) \cup {name} |-> IF f = name THEN text ELSE files[f]]

\* the lookup that reports an expired entry as a miss but leaves its file
_get_cached_data_keeps_expired(files, key, end_timestamp, time) ==
    LET cache_file == CacheFile(key) IN
    IF cache_file \notin DOMAIN files
    THEN [ret |-> NoCandles, files |-> files]
    ELSE LET cached_data == json_load(files[cache_file]) IN
         IF time - cached_data.timestamp > CACHE_TTL
            \/ time - end_timestamp < LIVE_WINDOW
         THEN [ret |-> NoCandles, files |-> files]
         ELSE [ret |-> [hit |-> TRUE, candles |-> cached_data.candles],
               files |-> files]

\* The value returned (hit = FALSE is None) and the directory afterwards.
\* An exception of lines 63-79 (json.load, or the subscript of a missing
\* member) is caught at line 80 and the file removed.
_get_cached_data(files, key, end_timestamp, time) ==
    LET cache_file == CacheFile(key) IN
    IF cache_file \notin DOMAIN files
    THEN [ret |-> NoCandles, files |-> files]
    ELSE IF JSONDecodeError(files[cache_file])
    THEN [ret |-> NoCandles, files |-> RemoveFile(files, cache_file)]
    ELSE LET cached_data == json_load(files[cache_file]) IN
         IF "timestamp" \notin DOMAIN cached_data
         THEN [ret |-> NoCandles, files |-> RemoveFile(files, cache_file)]
         ELSE IF time - cached_data.timestamp > CACHE_TTL
         THEN [ret |-> NoCandles, files |-> RemoveFile(files, cache_file)]
         ELSE IF time - end_timestamp < LIVE_WINDOW
         THEN [ret |-> NoCandles, files |-> files]
         ELSE IF "candles" \notin DOMAIN cached_data
         THEN [ret |-> NoCandles, files |-> RemoveFile(files, cache_file)]
         ELSE [ret |-> [hit |-> TRUE, candles |-> cached_data.candles],
               files |-> files]

\* the store that writes no time of storage
_cache_data_unstamped(files, key, candles, time) ==
    WriteFile(files, CacheFile(key),
              json_dump([timestamp |-> 0, candles |-> candles]))

_cache_data(files, key, candles, time) ==
    WriteFile(files, CacheFile(key),
              json_dump([timestamp |-> time, candles |-> candles]))

\* lines 112-115: the write fails and the exception is logged.  When open()
\* fails nothing is written; when json.dump or the close fails (disk full),
\* open() has already emptied the file and what was written of it remains.
_cache_data_failing(files, key, fault) ==
    IF fault = "open_fails"
    THEN files
    ELSE WriteFile(files, CacheFile(key), Truncated)

\* how a write can end
WriteOutcomes == {"ok", "open_fails", "dump_fails"}

endswith(name, suffix) ==
    /\ Len(name) >= Len(suffix)
    /\ SubSeq(name, Len(name) - Len(suffix) + 1, Len(name)) = suffix

\* clear_cache that removes one of the files only
clear_cache_one(files) ==
    IF \E f \in DOMAIN files : endswith(f, ".json")
    THEN RemoveFile(files, CHOOSE f \in DOMAIN files : endswith(f, ".json"))
    ELSE files

\* lines 229-233: every file of CACHE_DIR whose name ends in .json is removed
clear_cache(files) ==
    [f \in {g \in DOMAIN files : ~endswith(g, ".json")} |-> files[f]]

\* the store decision without the live-window test
ShouldCache_always(current_time, end) == TRUE

ShouldCache(current_time, end) == current_time - end >= LIVE_WINDOW

-----------------------------------------------------------------------------
(* Deduplicator *)

\* no candle is dropped
Unseen_all(candles, seen) == candles

RECURSIVE Unseen_by_start(_, _)
\* the candles whose start is new: the key without the close
Unseen_by_start(candles, seen) ==
    IF candles = <<>> THEN <<>>
    ELSE LET c == Head(candles) IN
         IF \E k \in seen : k[1] = c.start
         THEN Unseen_by_start(Tail(candles), seen)
         ELSE <<c>> \o Unseen_by_start(Tail(candles),
                                       seen \cup {candle_key(c)})

RECURSIVE Unseen(_, _)
\* The candles of `candles` whose key is neither in `seen` nor earlier in
\* `candles`, in their order.
Unseen(candles, seen) ==
    IF candles = <<>> THEN <<>>
    ELSE LET c == Head(candles) IN
         IF candle_key(c) \in seen
         THEN Unseen(Tail(candles), seen)
         ELSE <<c>> \o Unseen(Tail(candles), seen \cup {candle_key(c)})

Keys(candles) == {candle_key(candles[i]) : i \in DOMAIN candles}

RECURSIVE InsertByStart(_, _)
InsertByStart(sorted, c) ==
    IF sorted = <<>> THEN <<c>>
    ELSE IF c.start < Head(sorted).start
         THEN <<c>> \o sorted
         ELSE <<Head(sorted)>> \o InsertByStart(Tail(sorted), c)

\* the candles in the order of arrival
SortByStart_unsorted(candles) == candles

RECURSIVE SortByStart(_)
\* list.sort(key=start): stable, ascending.
SortByStart(candles) ==
    IF candles = <<>> THEN <<>>
    ELSE InsertByStart(SortByStart(SubSeq(candles, 1, Len(candles) - 1)),
                       candles[Len(candles)])

-----------------------------------------------------------------------------
(* Upstream market-data API: any candles of the requested range, in any    *)
(* order, possibly repeated.                                               *)

UpstreamCandles(start, end) ==
    {c \in market : start <= c.start /\ c.start < end}

UpstreamResponses(start, end) == BoundedSeq(UpstreamCandles(start, end), MaxResp)

-----------------------------------------------------------------------------
(* get_historical_data *)

NoRequest == [product_id |-> "", start_date |-> 0, end_date |-> 0,
              granularity |-> ""]

Requests ==
    {[product_id |-> p, start_date |-> datetime(x[1]),
      end_date |-> datetime(x[2]), granularity |-> x[3]] :
        p \in Products, x \in {y \in Ranges : y[1] < y[2]}}

\* the table read as a number of five-minute candles
chunk_size_candles(granularity) ==
    CHUNK_SIZE_CANDLES(granularity) * 5 * 60 * SubSecond

chunk_size(granularity) == timedelta_hours(CHUNK_SIZE_CANDLES(granularity))

\* start and end of the current chunk as passed to the cache and upstream
start == timestamp(current_start)
end == timestamp(current_end)

\* the chunk end without the clipping to end_date
ChunkEnd_unclipped(from, r) == from + chunk_size(r.granularity)

ChunkEnd(from, r) == Min(from + chunk_size(r.granularity), r.end_date)

LoopContinues(from, r) == from < r.end_date

\* the file of the hour-rounded key of a chunk, the one it gets outside the
\* live window
HourKeyFile(r, from, to) ==
    CacheFile(_get_cache_key(r.product_id, from, to, r.granularity,
                             to + LIVE_WINDOW))

NoOrigin == [start |-> 0, end |-> 0, req |-> NoRequest, time |-> 0]

NoReads == [live |-> FALSE, expired |-> FALSE, bucket |-> FALSE]

\* history record of one chunk: its bounds and key, what its lookup saw
\* (`rd`), where its candles came from, and whether and when it was stored
Chunk(from_dt, to_dt, key, rd, source, entry, write, time, candles) ==
    [start_dt |-> from_dt, end_dt |-> to_dt,
     start |-> timestamp(from_dt), end |-> timestamp(to_dt), key |-> key,
     live |-> rd.live, expired |-> rd.expired, bucket |-> rd.bucket,
     source |-> source, from |-> entry,
     write |-> write, stored |-> write = "ok",
     stored_at |-> IF write = "ok" THEN time ELSE 0,
     candles |-> candles]

\* lines 117-128: the call and its locals
Call(r) ==
    /\ program = "historicaldata"
    /\ pc \in {"idle", "done", "raised"}
    /\ ncalls < MaxCalls
    /\ req' = r
    /\ ncalls' = ncalls + 1
    /\ all_candles' = <<>>
    /\ seen_candles' = {}
    /\ current_start' = r.start_date
    /\ current_end' = r.start_date
    /\ cache_key' = ""
    /\ reads' = NoReads
    /\ chunks' = <<>>
    /\ result' = <<>>
    /\ pc' = "loop"
    /\ UNCHANGED <<program, market, clears, svc, calls, fs, now, cache, origin, tr>>

\* lines 130-155 and 187: the loop test, the chunk's bounds, its key, the
\* cache lookup and a hit.  The clock readings of lines 44, 67 and 73 are
\* taken at the same instant.
ChunkLookup ==
    /\ pc = "loop"
    /\ LoopContinues(current_start, req)
    /\ current_end' = ChunkEnd(current_start, req)
    /\ cache_key' = _get_cache_key(req.product_id, start, end', req.granularity, now)
    /\ LET got == _get_cached_data(cache, cache_key', end', now)
           file == CacheFile(cache_key')
       IN
       /\ cache' = got.files
       /\ origin' = [f \in DOMAIN got.files |-> origin[f]]
       /\ reads' = [live |-> now - end' < LIVE_WINDOW,
                    expired |-> file \in DOMAIN cache /\ file \notin DOMAIN got.files,
                    bucket |-> HourKeyFile(req, start, end') \in DOMAIN cache]
       /\ IF got.ret.hit
          THEN /\ all_candles' = all_candles \o Unseen(got.ret.candles, seen_candles)
               /\ seen_candles' = seen_candles \cup Keys(got.ret.candles)
               /\ chunks' = Append(chunks,
                      Chunk(current_start, current_end', cache_key', reads',
                            "cache", origin[file], "none", now, got.ret.candles))
               /\ current_start' = current_end'
               /\ pc' = "loop"
          ELSE /\ pc' = "fetch"
               /\ UNCHANGED <<all_candles, seen_candles, chunks, current_start>>
    /\ UNCHANGED <<program, market, clears, svc, calls, fs, now, req, result, ncalls, tr>>

\* line 180, reached when _cache_data has returned
Extend_if_written(candles, new_candles, write) ==
    IF write \in {"ok", "none"} THEN candles \o new_candles ELSE candles

Extend(candles, new_candles, write) == candles \o new_candles

\* lines 156-183 and 187: the upstream call answers; dedup, store, extend.
\* `write` is how the write of the cache file ends.
ChunkFetch(candles, write) ==
    /\ pc = "fetch"
    /\ ~ShouldCache(now, end) => write = "ok"
    /\ LET candle_dicts == [i \in DOMAIN candles |->
                               _convert_candle_to_dict(candles[i])]
           new_candles == Unseen(candle_dicts, seen_candles)
           outcome == IF ShouldCache(now, end) THEN write ELSE "none"
       IN
       /\ seen_candles' = seen_candles \cup Keys(candle_dicts)
       /\ cache' = CASE outcome = "ok" ->
                           _cache_data(cache, cache_key, candle_dicts, now)
                      [] outcome = "none" -> cache
                      [] OTHER -> _cache_data_failing(cache, cache_key, outcome)
       /\ origin' = IF outcome \in {"ok", "dump_fails"}
                    THEN WriteFile(origin, CacheFile(cache_key),
                                   [start |-> start, end |-> end,
                                    req |-> req, time |-> now])
                    ELSE origin
       /\ all_candles' = Extend(all_candles, new_candles, outcome)
       /\ chunks' = Append(chunks,
              Chunk(current_start, current_end, cache_key, reads, "api",
                    NoOrigin, outcome, now, candle_dicts))
    /\ current_start' = current_end
    /\ pc' = "loop"
    /\ UNCHANGED <<program, market, clears, svc, calls, fs, now, req, current_end, cache_key,
                   result, ncalls, reads, tr>>

\* the write of the cache file succeeds
ChunkFetchOk(candles) == ChunkFetch(candles, "ok")

\* lines 156-165: the upstream call, or the subscript of its response, raises
\* an exception that is not an HTTPError (ConnectionError, Timeout, KeyError);
\* no handler of get_historical_data catches it
ChunkFetchRaises ==
    /\ pc = "fetch"
    /\ pc' = "raised"
    /\ UNCHANGED <<program, market, clears, svc, calls, fs, now, cache, req, current_start,
                   current_end, cache_key, all_candles, seen_candles, result,
                   ncalls, reads, chunks, origin, tr>>

\* lines 156-163 and 184-187: the upstream call raises HTTPError, which is
\* logged; the loop goes on with the next chunk
ChunkFetchHTTPError ==
    /\ pc = "fetch"
    /\ chunks' = Append(chunks,
           Chunk(current_start, current_end, cache_key, reads, "error",
                 NoOrigin, "none", now, <<>>))
    /\ current_start' = current_end
    /\ pc' = "loop"
    /\ UNCHANGED <<program, market, clears, svc, calls, fs, now, cache, req, current_end, cache_key,
                   all_candles, seen_candles, result, ncalls, reads, origin, tr>>

\* lines 189-225: sort and return
Return ==
    /\ pc = "loop"
    /\ ~LoopContinues(current_start, req)
    /\ all_candles' = SortByStart(all_candles)
    /\ result' = all_candles'
    /\ pc' = "done"
    /\ UNCHANGED <<program, market, clears, svc, calls, fs, now, cache, req, current_start, current_end,
                   cache_key, seen_candles, ncalls, reads, chunks, origin, tr>>

\* the wall clock advances; it never goes backwards
Tick ==
    /\ program = "historicaldata"
    /\ now + HOUR <= InitialNow + MaxTicks * HOUR
    /\ now' = now + HOUR
    /\ UNCHANGED <<program, market, clears, svc, calls, fs, hdvars, tr>>

\* lines 227-235: clear_cache, called between two calls of
\* get_historical_data
ClearCache ==
    /\ program = "historicaldata"
    /\ pc \in {"idle", "done"}
    /\ Len(clears) < MaxClears
    /\ cache' = clear_cache(cache)
    /\ origin' = [f \in DOMAIN cache' |-> origin[f]]
    /\ clears' = Append(clears, Cardinality(DOMAIN cache) - Cardinality(DOMAIN cache'))
    /\ UNCHANGED <<program, market, svc, calls, fs, now, pc, req, current_start,
                   current_end, cache_key, all_candles, seen_candles, result,
                   ncalls, reads, chunks, tr>>

-----------------------------------------------------------------------------
(* fetch_coinbase_data (trend_detection.py): backward pagination, each     *)
(* chunk fetched with retry                                                *)

TrIdle == [pc |-> "idle", start |-> 0, end |-> 0, current_end |-> 0,
           chunk_start |-> 0, retries |-> 0, n_candles |-> 0,
           attempts |-> <<>>, failed |-> FALSE]

\* what one call of get_public_candles does
TrOutcomes == {"candles", "empty", "malformed", "exception"}

\* the same delay after every failure
Backoff_constant(retries) == 2

Backoff(retries) == 2 ^ retries

Max(a, b) == IF a > b THEN a ELSE b

\* the chunk start that stays at the chunk end
TrChunkStart_stuck(t) == t.current_end

TrChunkStart(t) ==
    Max(t.current_end - timedelta_hours(TREND_CHUNK_HOURS), t.start)

\* lines 32-46
TrCall(s, e) ==
    /\ program = "trend_detection"
    /\ tr.pc = "idle"
    /\ tr' = [TrIdle EXCEPT !.pc = "outer", !.start = s, !.end = e,
                            !.current_end = e, !.chunk_start = e]
    /\ UNCHANGED <<program, market, clears, svc, calls, fs, now, hdvars>>

\* lines 49-50: the outer loop test
TrOuter ==
    /\ program = "trend_detection"
    /\ tr.pc = "outer"
    /\ IF tr.current_end > tr.start
       THEN tr' = [tr EXCEPT !.pc = "inner", !.retries = 0, !.attempts = <<>>]
       ELSE tr' = [tr EXCEPT !.pc = "end"]
    /\ UNCHANGED <<program, market, clears, svc, calls, fs, now, hdvars>>

\* lines 51-111: one pass of the retry loop.  `slept` is the delay slept
\* after the attempt (0: none).
TrAttempt(outcome, n) ==
    /\ program = "trend_detection"
    /\ tr.pc = "inner"
    /\ tr.retries < max_retries
    /\ LET cs == TrChunkStart(tr)
           failures == tr.retries + 1
           slept == CASE outcome = "malformed" -> MALFORMED_DELAY
                      [] outcome = "exception" /\ failures < max_retries
                            -> Backoff(failures)
                      [] OTHER -> 0
           log == Append(tr.attempts, [outcome |-> outcome, slept |-> slept])
       IN
       CASE outcome = "candles" ->
              tr' = [tr EXCEPT !.chunk_start = cs, !.attempts = log,
                               !.n_candles = @ + n, !.pc = "after"]
         [] outcome = "empty" ->
              tr' = [tr EXCEPT !.chunk_start = cs, !.attempts = log,
                               !.pc = "after"]
         [] OTHER ->
              tr' = [tr EXCEPT !.chunk_start = cs, !.attempts = log,
                               !.retries = failures,
                               !.pc = IF failures < max_retries
                                      THEN "inner" ELSE "after"]
    /\ UNCHANGED <<program, market, clears, svc, calls, fs, now, hdvars>>

\* lines 113-122: give up after max_retries, or go on to the chunk before
TrAfter ==
    /\ program = "trend_detection"
    /\ tr.pc = "after"
    /\ IF tr.retries = max_retries
       THEN tr' = [tr EXCEPT !.failed = TRUE, !.pc = "end"]
       ELSE tr' = [tr EXCEPT !.current_end = tr.chunk_start,
                             !.pc = IF tr.chunk_start <= tr.start
                                    THEN "end" ELSE "outer"]
    /\ UNCHANGED <<program, market, clears, svc, calls, fs, now, hdvars>>

-----------------------------------------------------------------------------
(* The chunk planner: the loop of get_historical_data reduced to its       *)
(* control variables.  Every path through the loop body (cache hit, fetch, *)
(* HTTPError) ends at line 187 and none assigns current_end or end_date,   *)
(* so the chunk bounds do not depend on the path taken.                    *)

\* ranges around the chunk size of each granularity, some with sub-second
\* bounds
PlannerDurations(g) ==
    {1, datetime(1), chunk_size(g) - 1, chunk_size(g), chunk_size(g) + 1,
     2 * chunk_size(g) + datetime(HalfHour), datetime(10 * HOUR)}

PlannerRequests ==
    UNION {{[product_id |-> p, start_date |-> s, end_date |-> s + d,
             granularity |-> g] :
                p \in Products, s \in {0, 1, datetime(HalfHour) + 1},
                d \in PlannerDurations(g)} : g \in PlannerGranularities}

\* lines 117-128
PlanCall(r) ==
    /\ program = "planner"
    /\ pc = "idle"
    /\ req' = r
    /\ current_start' = r.start_date
    /\ current_end' = r.start_date
    /\ chunks' = <<>>
    /\ pc' = "loop"
    /\ UNCHANGED <<program, market, clears, svc, calls, fs, now, cache, cache_key, all_candles,
                   seen_candles, result, ncalls, reads, origin, tr>>

\* lines 130-133 and 187
PlanChunk ==
    /\ program = "planner"
    /\ pc = "loop"
    /\ LoopContinues(current_start, req)
    /\ current_end' = ChunkEnd(current_start, req)
    /\ chunks' = Append(chunks,
           Chunk(current_start, current_end', "", NoReads, "any", NoOrigin,
                 "none", 0, <<>>))
    /\ current_start' = current_end'
    /\ UNCHANGED <<program, market, clears, svc, calls, fs, now, cache, pc, req, cache_key, all_candles,
                   seen_candles, result, ncalls, reads, origin, tr>>

\* line 130: the loop ends
PlanReturn ==
    /\ program = "planner"
    /\ pc = "loop"
    /\ ~LoopContinues(current_start, req)
    /\ pc' = "done"
    /\ UNCHANGED <<program, market, clears, svc, calls, fs, now, cache, req, current_start, current_end,
                   cache_key, all_candles, seen_candles, result, ncalls, reads,
                   chunks, origin, tr>>

-----------------------------------------------------------------------------
(* _get_cached_data and _cache_data statement by statement, for callers    *)
(* (threads or processes) that share CACHE_DIR and use the same key.  The  *)
(* statements that touch the file are the steps; what lies between them    *)
(* works on the caller's own data.  Caller 1 reads and writes, caller 2    *)
(* reads.  A file that is removed while it is open for writing is unlinked *)
(* and what is written to it afterwards is lost (POSIX).                   *)

Procs == {1, 2}

Writer == 1

FsKey == "key"

FsFile == CacheFile(FsKey)

ProcIdle == [op |-> "none", pc |-> "idle", ret |-> "none", torn |-> FALSE,
             data |-> <<>>]

FsIdle == [dir |-> <<>>, init |-> <<>>, end |-> 0, nops |-> 0,
           wrote |-> FALSE, procs |-> [p \in Procs |-> ProcIdle]]

OldCandles == <<_convert_candle_to_dict([start |-> 0, close |-> 1])>>

NewCandles == <<_convert_candle_to_dict([start |-> 0, close |-> 2])>>

\* what the file holds at the start: an entry written half an hour ago, one
\* written two hours ago, a file cut short, a document without timestamp,
\* and a recent one without candles
InitialTexts ==
    {json_dump([timestamp |-> InitialNow - HalfHour, candles |-> OldCandles]),
     json_dump([timestamp |-> InitialNow - 2 * HOUR, candles |-> OldCandles]),
     Truncated,
     [candles |-> <<json_object(OldCandles[1])>>],
     [timestamp |-> InitialNow - HalfHour]}

InitialDirs == {<<>>} \cup {WriteFile(<<>>, FsFile, t) : t \in InitialTexts}

\* the end of the chunk that is looked up: outside and within the live window
FsEnds == {5 * HOUR, 5 * HOUR + HalfHour}

Finish(proc, ret) == [proc EXCEPT !.pc = "done", !.ret = ret]

\* a caller enters _get_cached_data (line 54)
FsGet(p) ==
    /\ program = "cache_files"
    /\ fs.procs[p].pc \in {"idle", "done"}
    /\ fs.nops < MaxOps
    /\ fs' = [fs EXCEPT !.nops = @ + 1,
                        !.procs[p] = [ProcIdle EXCEPT !.op = "get", !.pc = "58"]]
    /\ UNCHANGED <<program, market, clears, svc, calls, now, hdvars, tr>>

\* line 58: os.path.exists
FsExists(p) ==
    /\ program = "cache_files"
    /\ fs.procs[p].pc = "58"
    /\ fs' = [fs EXCEPT !.procs[p] =
                 IF FsFile \in DOMAIN fs.dir
                 THEN [@ EXCEPT !.pc = "63"]
                 ELSE Finish(@, "miss")]
    /\ UNCHANGED <<program, market, clears, svc, calls, now, hdvars, tr>>

\* lines 63-79: open and json.load, then the tests on what was read.  A file
\* that is gone, is not JSON or lacks a member that is read raises, which
\* leads to the handler of line 80.
FsLoad(p) ==
    /\ program = "cache_files"
    /\ fs.procs[p].pc = "63"
    /\ fs' = [fs EXCEPT !.procs[p] =
          IF FsFile \notin DOMAIN fs.dir THEN [@ EXCEPT !.pc = "82"]
          ELSE LET text == fs.dir[FsFile]
                   seen == [@ EXCEPT !.torn = /\ JSONDecodeError(text)
                                              /\ fs.procs[Writer].pc = "113"]
               IN
               IF JSONDecodeError(text) THEN [seen EXCEPT !.pc = "82"]
               ELSE LET cached_data == json_load(text) IN
                    IF "timestamp" \notin DOMAIN cached_data
                    THEN [seen EXCEPT !.pc = "82"]
                    ELSE IF now - cached_data.timestamp > CACHE_TTL
                    THEN [seen EXCEPT !.pc = "69"]
                    ELSE IF now - fs.end < LIVE_WINDOW
                    THEN Finish(seen, "miss")
                    ELSE IF "candles" \notin DOMAIN cached_data
                    THEN [seen EXCEPT !.pc = "82"]
                    ELSE Finish([seen EXCEPT !.data = cached_data.candles],
                                "hit")]
    /\ UNCHANGED <<program, market, clears, svc, calls, now, hdvars, tr>>

\* line 69: os.remove of the expired file; FileNotFoundError leads to the
\* handler of line 80
FsRemoveExpired(p) ==
    /\ program = "cache_files"
    /\ fs.procs[p].pc = "69"
    /\ IF FsFile \in DOMAIN fs.dir
       THEN fs' = [fs EXCEPT !.dir = RemoveFile(@, FsFile),
                             !.procs[p] = Finish(@, "miss")]
       ELSE fs' = [fs EXCEPT !.procs[p] = [@ EXCEPT !.pc = "82"]]
    /\ UNCHANGED <<program, market, clears, svc, calls, now, hdvars, tr>>

\* line 82: os.path.exists in the handler
FsHandlerExists(p) ==
    /\ program = "cache_files"
    /\ fs.procs[p].pc = "82"
    /\ fs' = [fs EXCEPT !.procs[p] =
                 IF FsFile \in DOMAIN fs.dir
                 THEN [@ EXCEPT !.pc = "83"]
                 ELSE Finish(@, "miss")]
    /\ UNCHANGED <<program, market, clears, svc, calls, now, hdvars, tr>>

\* line 83: os.remove in the handler; FileNotFoundError is raised inside the
\* except clause and leaves _get_cached_data
FsHandlerRemove(p) ==
    /\ program = "cache_files"
    /\ fs.procs[p].pc = "83"
    /\ IF FsFile \in DOMAIN fs.dir
       THEN fs' = [fs EXCEPT !.dir = RemoveFile(@, FsFile),
                             !.procs[p] = Finish(@, "miss")]
       ELSE fs' = [fs EXCEPT !.procs[p] = Finish(@, "raised")]
    /\ UNCHANGED <<program, market, clears, svc, calls, now, hdvars, tr>>

\* the writer enters _cache_data (line 99)
FsPut(p) ==
    /\ program = "cache_files"
    /\ p = Writer
    /\ fs.procs[p].pc \in {"idle", "done"}
    /\ fs.nops < MaxOps
    /\ fs' = [fs EXCEPT !.nops = @ + 1, !.wrote = TRUE,
                        !.procs[p] = [ProcIdle EXCEPT !.op = "put", !.pc = "112"]]
    /\ UNCHANGED <<program, market, clears, svc, calls, now, hdvars, tr>>

\* line 112: open(cache_file, 'w') empties the file, or fails
FsOpen(p, ok) ==
    /\ program = "cache_files"
    /\ fs.procs[p].pc = "112"
    /\ IF ok
       THEN fs' = [fs EXCEPT !.dir = _cache_data_failing(@, FsKey, "dump_fails"),
                             !.procs[p] = [@ EXCEPT !.pc = "113"]]
       ELSE fs' = [fs EXCEPT !.dir = _cache_data_failing(@, FsKey, "open_fails"),
                             !.procs[p] = Finish(@, "write_failed")]
    /\ UNCHANGED <<program, market, clears, svc, calls, now, hdvars, tr>>

\* line 113 and the end of the with block: json.dump and close complete the
\* file, or fail and leave what was written so far
FsDump(p, ok) ==
    /\ program = "cache_files"
    /\ fs.procs[p].pc = "113"
    /\ IF ~ok
       THEN fs' = [fs EXCEPT !.procs[p] = Finish(@, "write_failed")]
       ELSE IF FsFile \in DOMAIN fs.dir
       THEN fs' = [fs EXCEPT !.dir = _cache_data(@, FsKey, NewCandles, now),
                             !.procs[p] = Finish(@, "written")]
       ELSE fs' = [fs EXCEPT !.procs[p] = Finish(@, "lost")]
    /\ UNCHANGED <<program, market, clears, svc, calls, now, hdvars, tr>>

-----------------------------------------------------------------------------
(* CoinbaseService (coinbaseservice.py) *)

CsIdle == [pc |-> "idle"]

-----------------------------------------------------------------------------
(* close_all_positions: one task per position on a ThreadPoolExecutor, the *)
(* calling thread waiting for them with a timeout.  Time passes while the  *)
(* calling thread is blocked; what it does in between takes no time.       *)

max_workers == 10

\* the open perpetual positions of the portfolio
Positions ==
    {[symbol |-> "BTC-PERP-INTX", position_side |-> "FUTURES_POSITION_SIDE_LONG"],
     [symbol |-> "ETH-PERP-INTX", position_side |-> "FUTURES_POSITION_SIDE_SHORT"]}

Timeouts == {0, 1}

\* percent of the position size
size_percentages == <<100, 99, 98, 95>>

\* what create_order returns: a dict or a response object of the SDK, the
\* order accepted or rejected with an error; or it raises
CreateOrderResults ==
    {[shape |-> sh, success |-> TRUE, error |-> ""] : sh \in {"dict", "object"}}
    \cup {[shape |-> sh, success |-> FALSE, error |-> e] :
             sh \in {"dict", "object"},
             e \in {"PREVIEW_INSUFFICIENT_FUNDS", "INVALID_LEVERAGE"}}
    \cup {[shape |-> "raises", success |-> FALSE, error |-> ""]}

NoResult == [shape |-> "none", success |-> FALSE, error |-> ""]

\* a future and the history of its task: the sizes tried, the last answer,
\* the number of orders the broker accepted, and whether an order was sent
\* after an accepted one
NewTask(position) ==
    [state |-> "pending", side |-> IF position.position_side
                                       = "FUTURES_POSITION_SIDE_SHORT"
                                   THEN "BUY" ELSE "SELL",
     tried |-> <<>>, last |-> NoResult, accepted |-> 0,
     sent_after_accepted |-> FALSE, ret |-> "none", late |-> FALSE]

\* line 878
IsSuccess(answer) == answer.shape = "dict" /\ answer.success

\* lines 882-887: the rejection is not one for insufficient funds
LadderBreaks(answer) == answer.error # "PREVIEW_INSUFFICIENT_FUNDS"

\* lines 895-899: the executor is entered and every position is submitted
CloseCall(timeout) ==
    /\ program = "close_all_positions"
    /\ svc.pc = "idle"
    /\ svc' = [pc |-> "wait", timeout |-> timeout, time |-> 0,
               start_time |-> 0,
               tasks |-> [position \in Positions |-> NewTask(position)],
               not_done |-> {}, success_count |-> 0, returned_at |-> 0]
    /\ UNCHANGED <<program, market, clears, calls, fs, now, hdvars, tr>>

\* a worker thread takes a pending future from the queue
TaskStart(position) ==
    /\ program = "close_all_positions"
    /\ svc.pc \in {"wait", "cancel", "exit"}
    /\ svc.tasks[position].state = "pending"
    /\ Cardinality({q \in Positions : svc.tasks[q].state = "running"})
          < max_workers
    /\ svc' = [svc EXCEPT !.tasks[position].state = "running"]
    /\ UNCHANGED <<program, market, clears, calls, fs, now, hdvars, tr>>

\* lines 855-893: one pass of the loop over size_percentages
TaskOrder(position, answer) ==
    /\ program = "close_all_positions"
    /\ svc.pc \in {"wait", "cancel", "exit"}
    /\ svc.tasks[position].state = "running"
    /\ LET t == svc.tasks[position]
           size_pct == size_percentages[Len(t.tried) + 1]
           sent == [t EXCEPT !.tried = Append(@, size_pct),
                             !.last = answer,
                             !.accepted = IF answer.success THEN @ + 1 ELSE @,
                             !.sent_after_accepted = @ \/ t.accepted > 0,
                             !.late = @ \/ svc.pc # "wait"]
           last_size == Len(sent.tried) = Len(size_percentages)
       IN
       svc' = [svc EXCEPT !.tasks[position] =
                 IF answer.shape = "raises"
                 THEN IF last_size
                      THEN [sent EXCEPT !.state = "done", !.ret = "False"]
                      ELSE sent
                 ELSE IF IsSuccess(answer)
                 THEN [sent EXCEPT !.state = "done", !.ret = "True"]
                 ELSE IF LadderBreaks(answer) \/ last_size
                 THEN [sent EXCEPT !.state = "done", !.ret = "False"]
                 ELSE sent]
    /\ UNCHANGED <<program, market, clears, calls, fs, now, hdvars, tr>>

\* lines 902-903: wait() returns when every future is done or the timeout
\* has passed
WaitReturn ==
    /\ program = "close_all_positions"
    /\ svc.pc = "wait"
    /\ \/ \A position \in Positions : svc.tasks[position].state = "done"
       \/ svc.time - svc.start_time >= svc.timeout
    /\ svc' = [svc EXCEPT !.pc = "cancel",
                          !.not_done = {position \in Positions :
                                          svc.tasks[position].state # "done"}]
    /\ UNCHANGED <<program, market, clears, calls, fs, now, hdvars, tr>>

\* lines 906-914: cancel() takes a pending future out of the queue and does
\* nothing to a running one; the results of the done futures are counted
CancelNotDone ==
    /\ program = "close_all_positions"
    /\ svc.pc = "cancel"
    /\ svc' = [svc EXCEPT
          !.pc = "exit",
          !.tasks = [position \in Positions |->
                       IF position \in svc.not_done
                          /\ svc.tasks[position].state = "pending"
                       THEN [svc.tasks[position] EXCEPT !.state = "cancelled"]
                       ELSE svc.tasks[position]],
          !.success_count =
              Cardinality({position \in Positions \ svc.not_done :
                              svc.tasks[position].ret = "True"})]
    /\ UNCHANGED <<program, market, clears, calls, fs, now, hdvars, tr>>

\* line 897: the with block ends with executor.shutdown(wait=True), which
\* joins the worker threads: it returns when no future is running
ExecutorExit ==
    /\ program = "close_all_positions"
    /\ svc.pc = "exit"
    /\ \A position \in Positions :
          svc.tasks[position].state \in {"done", "cancelled"}
    /\ svc' = [svc EXCEPT !.pc = "returned", !.returned_at = svc.time]
    /\ UNCHANGED <<program, market, clears, calls, fs, now, hdvars, tr>>

\* a second passes while the calling thread is blocked in wait() or in
\* shutdown()
CloseTick ==
    /\ program = "close_all_positions"
    /\ \/ /\ svc.pc = "wait"
          /\ svc.time - svc.start_time < svc.timeout
          /\ \E position \in Positions : svc.tasks[position].state # "done"
       \/ /\ svc.pc = "exit"
          /\ \E position \in Positions : svc.tasks[position].state = "running"
    /\ svc.time < MaxTime
    /\ svc' = [svc EXCEPT !.time = @ + 1]
    /\ UNCHANGED <<program, market, clears, calls, fs, now, hdvars, tr>>

-----------------------------------------------------------------------------
(* monitor_limit_order_and_place_bracket.  `requests` is the history of    *)
(* the calls made on the client, `polls` that of the status requests with  *)
(* the time each was made and answered.                                    *)

check_interval == 5

MaxWaitTimes == {3, 10}

OrderSides == {"BUY", "SELL"}

\* the status that get_order reports; "none" stands for an answer from
\* which no status can be read
OrderStatuses == {"OPEN", "FILLED", "CANCELLED", "EXPIRED", "FAILED", "none"}

\* how the bracket order request ends
BracketOutcomes == {"placed", "error_response", "raises"}

\* the bracket order on the side of the filled order
bracket_side_same(side) == side

\* line 972
bracket_side(side) == IF side = "BUY" THEN "SELL" ELSE "BUY"

\* the loop that polls again at once
NextCheck_at_once(time) == time

\* line 1031: time.sleep(check_interval)
NextCheck(time) == time + check_interval

\* lines 938-941
MonitorCall(side, max_wait_time) ==
    /\ program = "monitor"
    /\ svc.pc = "idle"
    /\ svc' = [pc |-> "while", order_side |-> side,
               max_wait_time |-> max_wait_time, start_time |-> 0, time |-> 0,
               polls |-> <<>>, requests |-> <<>>, status |-> "none"]
    /\ UNCHANGED <<program, market, clears, calls, fs, now, hdvars, tr>>

\* lines 943-1039: one pass of the loop.  get_order answers after `latency`
\* seconds with a status, or raises; a filled order is followed by the
\* bracket order request.
MonitorPoll(status, raises, latency, bracket) ==
    /\ program = "monitor"
    /\ svc.pc = "while"
    /\ svc.time - svc.start_time < svc.max_wait_time
    /\ Len(svc.polls) < MaxPolls
    /\ LET answered == svc.time + latency
           polled == [svc EXCEPT
                        !.time = answered,
                        !.polls = Append(@, [at |-> svc.time,
                                            answered |-> answered,
                                            status |-> IF raises THEN "raises"
                                                       ELSE status]),
                        !.requests = Append(@, [call |-> "get_order",
                                                side |-> ""])]
       IN
       IF raises
       THEN svc' = [polled EXCEPT !.pc = "done", !.status = "error"]
       ELSE IF status = "FILLED"
       THEN svc' = [polled EXCEPT
                      !.pc = "done",
                      !.requests =
                          Append(@, [call |-> "trigger_bracket_order_gtd",
                                     side |-> bracket_side(svc.order_side)]),
                      !.status = IF bracket = "placed" THEN "success"
                                 ELSE "error"]
       ELSE IF status \in {"CANCELLED", "EXPIRED", "FAILED"}
       THEN svc' = [polled EXCEPT !.pc = "done", !.status = "cancelled"]
       ELSE svc' = [polled EXCEPT !.time = NextCheck(answered)]
    /\ UNCHANGED <<program, market, clears, calls, fs, now, hdvars, tr>>

\* lines 943 and 1041-1044: the wait is over
MonitorTimeout ==
    /\ program = "monitor"
    /\ svc.pc = "while"
    /\ ~(svc.time - svc.start_time < svc.max_wait_time)
    /\ svc' = [svc EXCEPT !.pc = "done", !.status = "timeout"]
    /\ UNCHANGED <<program, market, clears, calls, fs, now, hdvars, tr>>

-----------------------------------------------------------------------------
(* place_market_order_with_targets.  The client answers with a dict or     *)
(* with a response object of the SDK (both are read at lines 357-364 and   *)
(* 381-385), or raises.                                                    *)

\* an answer to preview_market_order, market_order or the bracket order
\* request: its shape and whether it reports an error (error_response); for
\* market_order also whether success_response carries the order id
ClientAnswers ==
    {[shape |-> sh, error |-> e, order_id |-> id] :
        sh \in {"dict", "object", "raises"}, e \in BOOLEAN, id \in BOOLEAN}

\* lines 332, 349, 425: hasattr(answer, 'error_response')
has_error_response(answer) == answer.shape = "object" /\ answer.error

\* lines 356-366
extract_order_id(answer) == ~answer.error /\ answer.order_id

PmoDone(state, status, error) ==
    [state EXCEPT !.pc = "done", !.status = status, !.error = error]

\* line 313
PmoCall(side) ==
    /\ program = "place_market_order"
    /\ svc.pc = "idle"
    /\ svc' = [pc |-> "preview", side |-> side, requests |-> <<>>,
               status |-> "none", error |-> FALSE]
    /\ UNCHANGED <<program, market, clears, calls, fs, now, hdvars, tr>>

\* lines 321-334 and 452-454
PmoPreview(answer) ==
    /\ program = "place_market_order"
    /\ svc.pc = "preview"
    /\ LET sent == [svc EXCEPT !.requests =
                       Append(@, [call |-> "preview_market_order",
                                  answer |-> answer, status |-> ""])]
       IN svc' = IF answer.shape = "raises" \/ has_error_response(answer)
                 THEN PmoDone(sent, "none", TRUE)
                 ELSE [sent EXCEPT !.pc = "market_order"]
    /\ UNCHANGED <<program, market, clears, calls, fs, now, hdvars, tr>>

\* lines 336-370 and 452-454
PmoMarketOrder(answer) ==
    /\ program = "place_market_order"
    /\ svc.pc = "market_order"
    /\ LET sent == [svc EXCEPT !.requests =
                       Append(@, [call |-> "market_order",
                                  answer |-> answer, status |-> ""])]
       IN svc' = IF \/ answer.shape = "raises"
                    \/ has_error_response(answer)
                    \/ ~extract_order_id(answer)
                 THEN PmoDone(sent, "none", TRUE)
                 ELSE [sent EXCEPT !.pc = "get_order"]
    /\ UNCHANGED <<program, market, clears, calls, fs, now, hdvars, tr>>

\* lines 372-389 and 452-454
PmoGetOrder(status, raises) ==
    /\ program = "place_market_order"
    /\ svc.pc = "get_order"
    /\ LET sent == [svc EXCEPT !.requests =
                       Append(@, [call |-> "get_order",
                                  answer |-> [shape |-> IF raises THEN "raises"
                                                        ELSE "dict",
                                              error |-> FALSE,
                                              order_id |-> FALSE],
                                  status |-> status])]
       IN svc' = IF raises \/ status # "FILLED"
                 THEN PmoDone(sent, "none", TRUE)
                 ELSE [sent EXCEPT !.pc = "bracket"]
    /\ UNCHANGED <<program, market, clears, calls, fs, now, hdvars, tr>>

\* lines 391-450
PmoBracket(answer) ==
    /\ program = "place_market_order"
    /\ svc.pc = "bracket"
    /\ LET sent == [svc EXCEPT !.requests =
                       Append(@, [call |-> "trigger_bracket_order_gtd",
                                  answer |-> answer, status |-> ""])]
       IN svc' = IF answer.shape = "raises" \/ has_error_response(answer)
                 THEN PmoDone(sent, "none", TRUE)
                 ELSE PmoDone(sent, "success", FALSE)
    /\ UNCHANGED <<program, market, clears, calls, fs, now, hdvars, tr>>

-----------------------------------------------------------------------------

Idle ==
    /\ now = InitialNow
    /\ cache = <<>>
    /\ origin = <<>>
    /\ pc = "idle"
    /\ req = NoRequest
    /\ current_start = 0
    /\ current_end = 0
    /\ cache_key = ""
    /\ all_candles = <<>>
    /\ seen_candles = {}
    /\ reads = NoReads
    /\ chunks = <<>>
    /\ ncalls = 0
    /\ result = <<>>
    /\ tr = TrIdle
    /\ calls = <<>>
    /\ fs = FsIdle
    /\ clears = <<>>
    /\ svc = CsIdle

Init ==
    /\ \/ program = "historicaldata" /\ market \in Markets
       \/ program = "trend_detection" /\ market = {}
    /\ Idle

Next ==
    \/ \E r \in Requests : Call(r)
    \/ ChunkLookup
    \/ \E candles \in UpstreamResponses(start, end) : ChunkFetchOk(candles)
    \/ ChunkFetchHTTPError
    \/ Return
    \/ Tick
    \/ \E x \in TrendRanges :
          TrCall(datetime(x[1] * HOUR), datetime(x[2] * HOUR))
    \/ TrOuter
    \/ \E outcome \in TrOutcomes, n \in 1..MaxResp :
          /\ outcome # "candles" => n = 1
          /\ TrAttempt(outcome, n)
    \/ TrAfter

Spec == Init /\ [][Next]_vars

InitPlanner ==
    /\ program = "planner"
    /\ market = {}
    /\ Idle

NextPlanner ==
    \/ \E r \in PlannerRequests : PlanCall(r)
    \/ PlanChunk
    \/ PlanReturn

SpecPlanner == InitPlanner /\ [][NextPlanner]_vars

-----------------------------------------------------------------------------
(* get_historical_data with failing cache writes and with upstream         *)
(* failures other than HTTPError                                           *)

InitFaults ==
    /\ program = "historicaldata"
    /\ market = {[start |-> 0, close |-> 1], [start |-> 5 * HOUR, close |-> 1]}
    /\ Idle

NextFaults ==
    \/ \E r \in Requests : Call(r)
    \/ ChunkLookup
    \/ \E candles \in UpstreamResponses(start, end), write \in WriteOutcomes :
          ChunkFetch(candles, write)
    \/ ChunkFetchHTTPError
    \/ ChunkFetchRaises
    \/ Return
    \/ Tick

SpecFaults == InitFaults /\ [][NextFaults]_vars

-----------------------------------------------------------------------------
(* get_historical_data and clear_cache in one process; CACHE_DIR holds a   *)
(* file that is not a cache entry                                          *)

OtherFile == "README"

InitClear ==
    /\ program = "historicaldata"
    /\ market = {[start |-> 0, close |-> 1], [start |-> 5 * HOUR, close |-> 1]}
    /\ now = InitialNow
    /\ cache = WriteFile(<<>>, OtherFile, Truncated)
    /\ origin = WriteFile(<<>>, OtherFile, NoOrigin)
    /\ pc = "idle"
    /\ req = NoRequest
    /\ current_start = 0
    /\ current_end = 0
    /\ cache_key = ""
    /\ all_candles = <<>>
    /\ seen_candles = {}
    /\ reads = NoReads
    /\ chunks = <<>>
    /\ ncalls = 0
    /\ result = <<>>
    /\ tr = TrIdle
    /\ calls = <<>>
    /\ fs = FsIdle
    /\ clears = <<>>
    /\ svc = CsIdle

NextClear ==
    \/ \E r \in Requests : Call(r)
    \/ ChunkLookup
    \/ \E candles \in UpstreamResponses(start, end) : ChunkFetchOk(candles)
    \/ ChunkFetchHTTPError
    \/ Return
    \/ Tick
    \/ ClearCache

SpecClear == InitClear /\ [][NextClear]_vars

-----------------------------------------------------------------------------
(* get_historical_data on a market where two candles differ in the volume  *)
(* only and two in the close only, an hour after the end of the ranges     *)

InitDedup ==
    /\ program = "historicaldata"
    /\ market = {[start |-> 5 * HOUR, close |-> 1, volume |-> 1],
                 [start |-> 5 * HOUR, close |-> 1, volume |-> 2],
                 [start |-> 5 * HOUR, close |-> 2, volume |-> 1]}
    /\ now = InitialNow + HOUR
    /\ cache = <<>>
    /\ origin = <<>>
    /\ pc = "idle"
    /\ req = NoRequest
    /\ current_start = 0
    /\ current_end = 0
    /\ cache_key = ""
    /\ all_candles = <<>>
    /\ seen_candles = {}
    /\ reads = NoReads
    /\ chunks = <<>>
    /\ ncalls = 0
    /\ result = <<>>
    /\ tr = TrIdle
    /\ calls = <<>>
    /\ fs = FsIdle
    /\ clears = <<>>
    /\ svc = CsIdle

NextDedup ==
    \/ \E r \in Requests : Call(r)
    \/ ChunkLookup
    \/ \E candles \in BoundedSeq(UpstreamCandles(start, end), MaxDelivered) :
          ChunkFetchOk(candles)
    \/ ChunkFetchHTTPError
    \/ Return

SpecDedup == InitDedup /\ [][NextDedup]_vars

-----------------------------------------------------------------------------
(* fetch_coinbase_data on its own.  The interpreter runs the statement     *)
(* that is next, and the upstream call returns or raises: weak fairness of *)
(* the steps.                                                              *)

InitTrend ==
    /\ program = "trend_detection"
    /\ market = {}
    /\ Idle

NextTrend ==
    \/ \E x \in TrendRanges :
          TrCall(datetime(x[1] * HOUR), datetime(x[2] * HOUR))
    \/ TrOuter
    \/ \E outcome \in TrOutcomes, n \in 1..MaxResp :
          /\ outcome # "candles" => n = 1
          /\ TrAttempt(outcome, n)
    \/ TrAfter

SpecTrend == InitTrend /\ [][NextTrend]_vars /\ WF_vars(NextTrend)

-----------------------------------------------------------------------------
(* close_all_positions *)

InitClose ==
    /\ program = "close_all_positions"
    /\ market = {}
    /\ Idle

NextClose ==
    \/ \E timeout \in Timeouts : CloseCall(timeout)
    \/ \E position \in Positions : TaskStart(position)
    \/ \E position \in Positions, answer \in CreateOrderResults :
          TaskOrder(position, answer)
    \/ WaitReturn
    \/ CancelNotDone
    \/ ExecutorExit
    \/ CloseTick

SpecClose == InitClose /\ [][NextClose]_vars

-----------------------------------------------------------------------------
(* monitor_limit_order_and_place_bracket *)

InitMonitor ==
    /\ program = "monitor"
    /\ market = {}
    /\ Idle

NextMonitor ==
    \/ \E side \in OrderSides, max_wait_time \in MaxWaitTimes :
          MonitorCall(side, max_wait_time)
    \/ \E status \in OrderStatuses, raises \in BOOLEAN,
          latency \in 0..MaxLatency, bracket \in BracketOutcomes :
          /\ raises => status = "none"
          /\ status # "FILLED" \/ raises => bracket = "placed"
          /\ MonitorPoll(status, raises, latency, bracket)
    \/ MonitorTimeout

SpecMonitor == InitMonitor /\ [][NextMonitor]_vars

-----------------------------------------------------------------------------
(* place_market_order_with_targets *)

InitPmo ==
    /\ program = "place_market_order"
    /\ market = {}
    /\ Idle

NextPmo ==
    \/ \E side \in OrderSides : PmoCall(side)
    \/ \E answer \in ClientAnswers : PmoPreview(answer)
    \/ \E answer \in ClientAnswers : PmoMarketOrder(answer)
    \/ \E status \in OrderStatuses, raises \in BOOLEAN :
          PmoGetOrder(status, raises)
    \/ \E answer \in ClientAnswers : PmoBracket(answer)

SpecPmo == InitPmo /\ [][NextPmo]_vars

-----------------------------------------------------------------------------
(* _get_cache_key called on its own, twice, the clock moving in between    *)

KeyProducts == {"BTC-USD", "ETH-USD"}

KeyGranularities == {"ONE_MINUTE", "ONE_HOUR"}

\* start and end of the chunks that are keyed, in seconds
KeyStarts == {0, HalfHour, HOUR}

KeyEnds == {5 * HOUR, 5 * HOUR + QuarterHour, 5 * HOUR + HalfHour}

\* lines 39-52
KeyCall(product_id, from, to, granularity) ==
    /\ program = "cache_key"
    /\ Len(calls) < 2
    /\ calls' = Append(calls,
           [product_id |-> product_id, start |-> from, end |-> to,
            granularity |-> granularity, time |-> now,
            key |-> _get_cache_key(product_id, from, to, granularity, now)])
    /\ UNCHANGED <<program, market, clears, svc, now, hdvars, tr, fs>>

\* the wall clock advances
KeyTick ==
    /\ program = "cache_key"
    /\ now + HalfHour <= InitialNow + MaxTicks * HOUR
    /\ now' = now + HalfHour
    /\ UNCHANGED <<program, market, clears, svc, calls, fs, hdvars, tr>>

InitKey ==
    /\ program = "cache_key"
    /\ market = {}
    /\ Idle

NextKey ==
    \/ \E p \in KeyProducts, s \in KeyStarts, e \in KeyEnds,
          g \in KeyGranularities : KeyCall(p, s, e, g)
    \/ KeyTick

SpecKey == InitKey /\ [][NextKey]_vars

InitFiles ==
    /\ program = "cache_files"
    /\ market = {}
    /\ now = InitialNow
    /\ cache = <<>>
    /\ origin = <<>>
    /\ pc = "idle"
    /\ req = NoRequest
    /\ current_start = 0
    /\ current_end = 0
    /\ cache_key = ""
    /\ all_candles = <<>>
    /\ seen_candles = {}
    /\ reads = NoReads
    /\ chunks = <<>>
    /\ ncalls = 0
    /\ result = <<>>
    /\ tr = TrIdle
    /\ calls = <<>>
    /\ clears = <<>>
    /\ svc = CsIdle
    /\ \E d \in InitialDirs, e \in FsEnds :
          fs = [FsIdle EXCEPT !.dir = d, !.init = d, !.end = e]

NextFiles ==
    \E p \in Procs :
        \/ FsGet(p)
        \/ FsExists(p)
        \/ FsLoad(p)
        \/ FsRemoveExpired(p)
        \/ FsHandlerExists(p)
        \/ FsHandlerRemove(p)
        \/ FsPut(p)
        \/ \E ok \in BOOLEAN : FsOpen(p, ok)
        \/ \E ok \in BOOLEAN : FsDump(p, ok)

SpecFiles == InitFiles /\ [][NextFiles]_vars

-----------------------------------------------------------------------------
(* Properties *)

Last(seq) == seq[Len(seq)]

InCall == program = "historicaldata" /\ pc \in {"loop", "fetch", "done"}

Returned == program = "historicaldata" /\ pc = "done"

\* C1: the chunks are in ascending time order, contiguous and non-overlapping
\* (each starts where the previous one ended), the first starts at start_date,
\* the last ends at end_date, and none is longer than the chunk duration of
\* the granularity, as datetimes and as the integer timestamps passed on.
C1_ChunksCoverRange ==
    /\ \A i \in DOMAIN chunks :
          /\ chunks[i].start_dt < chunks[i].end_dt
          /\ chunks[i].end_dt - chunks[i].start_dt <= chunk_size(req.granularity)
          /\ chunks[i].end - chunks[i].start
                <= CHUNK_SIZE_CANDLES(req.granularity) * HOUR
          /\ i = 1 => chunks[i].start_dt = req.start_date
          /\ i > 1 => /\ chunks[i].start_dt = chunks[i - 1].end_dt
                      /\ chunks[i].start = chunks[i - 1].end
    /\ pc = "done" => /\ chunks # <<>>
                      /\ Last(chunks).end_dt = req.end_date

\* a range of more than two chunks was planned, the last chunk clipped
C1_Witness ==
    /\ pc = "done"
    /\ Len(chunks) >= 3
    /\ Last(chunks).end_dt - Last(chunks).start_dt < chunk_size(req.granularity)
    /\ req.granularity = "ONE_DAY"


\* the step that looks a chunk up in the cache (lines 130-155)
LookupStep ==
    /\ program = "historicaldata"
    /\ pc = "loop"
    /\ pc' = "fetch" \/ (pc' = "loop" /\ chunks' # chunks)

\* the step in which the upstream call answers or fails (lines 156-187)
FetchStep == program = "historicaldata" /\ pc = "fetch" /\ pc' = "loop"

\* C2: a chunk whose end is within the live window when it is looked up is
\* not served from the cache: the lookup yields no candles and the chunk goes
\* to the upstream call; and a chunk whose end is within the live window when
\* its response is handled creates or overwrites no cache file.
C2_LiveWindowBypassesCache ==
    [][/\ LookupStep /\ now - end' < LIVE_WINDOW
          => /\ pc' = "fetch"
             /\ all_candles' = all_candles
             /\ \A f \in DOMAIN cache' : f \in DOMAIN cache /\ cache'[f] = cache[f]
       /\ FetchStep /\ now - end < LIVE_WINDOW => cache' = cache]_vars

\* a chunk in the live window was fetched upstream and not stored while the
\* cache held the entry of its hour bucket
C2_Witness ==
    \E i \in DOMAIN chunks :
        /\ chunks[i].live
        /\ chunks[i].bucket
        /\ chunks[i].source = "api"
        /\ ~chunks[i].stored
        /\ chunks[i].candles # <<>>

\* C3: the lookup of a key whose file is older than the TTL reports a miss
\* (no candles are taken from it) and removes the file.
C3_ExpiredEntryRemoved ==
    [][LookupStep
       /\ CacheFile(cache_key') \in DOMAIN cache
       /\ now - json_load(cache[CacheFile(cache_key')]).timestamp > CACHE_TTL
       => /\ pc' = "fetch"
          /\ all_candles' = all_candles
          /\ CacheFile(cache_key') \notin DOMAIN cache']_vars

\* the lookup of a chunk outside the live window found an expired file
C3_Witness ==
    \E i \in DOMAIN chunks : chunks[i].expired /\ ~chunks[i].live

\* C4: the key computed for a chunk whose end is within the live window is
\* not the key of a file that exists in the cache.
C4_LiveKeyNotCached ==
    [][LookupStep /\ now - end' < LIVE_WINDOW
       => CacheFile(cache_key') \notin DOMAIN cache]_vars

\* a live-window chunk was keyed while the cache held the entry of its hour
\* bucket
C4_Witness ==
    \E i \in DOMAIN chunks : chunks[i].live /\ chunks[i].bucket

\* C5: right after a chunk was stored, and as long as its entry is within
\* the TTL and its end outside the live window, the lookup of its key returns
\* the candles that were stored, in their order.
C5_StoreThenLookup ==
    chunks # <<>> /\ Last(chunks).stored
    /\ now - Last(chunks).stored_at <= CACHE_TTL
    /\ now - Last(chunks).end >= LIVE_WINDOW
    => _get_cached_data(cache, Last(chunks).key, Last(chunks).end, now).ret
          = [hit |-> TRUE, candles |-> Last(chunks).candles]

\* a non-empty response was stored and the clock has moved since
C5_Witness ==
    /\ chunks # <<>> /\ Last(chunks).stored
    /\ Last(chunks).candles # <<>>
    /\ now - Last(chunks).stored_at = CACHE_TTL
    /\ now - Last(chunks).end >= LIVE_WINDOW

\* C6: the returned sequence has no two candles with the same (start, close).
C6_NoDuplicateCandles ==
    Returned =>
        \A i, j \in DOMAIN result :
            i # j => candle_key(result[i]) # candle_key(result[j])

\* a chunk served from the cache and a chunk fetched upstream delivered the
\* same candle in one call
C6_Witness ==
    /\ Returned
    /\ \E i, j \in DOMAIN chunks :
          /\ i # j
          /\ chunks[i].source = "cache"
          /\ chunks[j].source = "api"
          /\ Keys(chunks[i].candles) \cap Keys(chunks[j].candles) # {}

\* C7: in the returned sequence the start of a candle is at most the start of
\* the next one.
C7_SortedByStart ==
    Returned =>
        \A i \in DOMAIN result :
            i < Len(result) => result[i].start <= result[i + 1].start

\* an earlier chunk delivered a candle that starts after one of a later chunk
C7_Witness ==
    /\ Returned
    /\ \E i, j \in DOMAIN chunks :
          /\ i < j
          /\ \E a \in Range(chunks[i].candles), b \in Range(chunks[j].candles) :
                a.start > b.start

\* C8: the returned sequence has no candle that starts outside [start, end)
\* of the request.
C8_ResultWithinRequest ==
    Returned =>
        \A i \in DOMAIN result :
            /\ req.start_date <= datetime(result[i].start)
            /\ datetime(result[i].start) < req.end_date

\* `later` asks for the range of `earlier` moved forward by one hour
Shifted(earlier, later) ==
    later = [earlier EXCEPT !.start_date = @ + datetime(HOUR),
                            !.end_date = @ + datetime(HOUR)]

\* the call has returned, none of its chunks was in the live window, and the
\* cache holds an entry, still within the TTL, stored by a request for the
\* range one hour earlier
ShiftedRequestReturned ==
    /\ Returned
    /\ \A i \in DOMAIN chunks : ~chunks[i].live
    /\ \E f \in DOMAIN cache :
          /\ Shifted(origin[f].req, req)
          /\ now - origin[f].time <= CACHE_TTL

\* C9 as stated: the request for the range moved forward by one hour serves
\* a chunk from the cache.
C9_ShiftedRequestHitsCache ==
    ShiftedRequestReturned => \E i \in DOMAIN chunks : chunks[i].source = "cache"

\* C9, amended: no chunk of a request is served from an entry stored by a
\* request for the range one hour earlier.
C9_ShiftedRequestMissesCache ==
    \A i \in DOMAIN chunks :
        chunks[i].source = "cache" => ~Shifted(chunks[i].from.req, req)

\* the request for the range moved forward by one hour fetched every chunk
\* upstream although the entry of the earlier request was still valid
C9_Witness ==
    /\ ShiftedRequestReturned
    /\ \A i \in DOMAIN chunks : chunks[i].source = "api"

\* an attempt of fetch_coinbase_data that failed
TrFailedAttempt == tr.pc = "inner" /\ tr'.retries = tr.retries + 1

C11_FailedChunkDoesNotAbortRange ==
    /\ [](tr.pc = "end" => tr.chunk_start = tr.start)
    /\ [][FetchStep /\ Last(chunks').source = "error"
          => /\ pc' = "loop"
             /\ all_candles' = all_candles
             /\ current_start' = current_end]_vars

\* the planner has finished a FIVE_MINUTE request of ten hours
TenHoursOfFiveMinutes ==
    /\ program = "planner"
    /\ pc = "done"
    /\ req.granularity = "FIVE_MINUTE"
    /\ req.end_date - req.start_date = datetime(10 * HOUR)

\* C19 as stated: a FIVE_MINUTE request of ten hours is split into five
\* chunks, the last one ending at the end of the request.
C19_FiveChunks ==
    TenHoursOfFiveMinutes
    => Len(chunks) = 5 /\ Last(chunks).end_dt = req.end_date

\* C19, amended: a FIVE_MINUTE request of ten hours is one chunk, the whole
\* range (the chunk duration of FIVE_MINUTE is 25 hours).
C19_OneChunk ==
    TenHoursOfFiveMinutes
    => /\ Len(chunks) = 1
       /\ chunks[1].start_dt = req.start_date
       /\ chunks[1].end_dt = req.end_date

\* a FIVE_MINUTE request of ten hours that starts off the second was planned
C19_Witness ==
    TenHoursOfFiveMinutes /\ Len(chunks) = 1 /\ req.start_date % SubSecond # 0

\* the number of candles that start in [from, to)
CandlesIn(from, to, granularity) ==
    (to - from + GranularitySeconds(granularity) - 1)
        \div GranularitySeconds(granularity)

\* C20: for the granularities of the table, no chunk asks for more candles
\* than the upstream API returns for one request.
C20_ChunkWithinApiLimit ==
    program = "planner" /\ req.granularity \in TableGranularities
    => \A i \in DOMAIN chunks :
          CandlesIn(chunks[i].start, chunks[i].end, req.granularity)
              <= API_MAX_CANDLES

\* a full chunk of each kind: 300 candles of one day, and 300 of one minute
C20_Witness ==
    /\ program = "planner" /\ req.granularity \in {"ONE_DAY", "ONE_MINUTE"}
    /\ Len(chunks) >= 2
    /\ CandlesIn(chunks[1].start, chunks[1].end, req.granularity) = 300

\* the four values the key is made of: the product, the start rounded down
\* to the hour, the end (rounded down to the hour unless it was within the
\* live window when the key was made) and the granularity
KeyValues(c) ==
    <<c.product_id,
      c.start - (c.start % HOUR),
      IF c.time - c.end >= LIVE_WINDOW THEN c.end - (c.end % HOUR) ELSE c.end,
      c.granularity>>

\* C18: two calls of _get_cache_key return the same key exactly when their
\* four values agree.
C18_KeyIdentifiesValues ==
    \A i, j \in DOMAIN calls :
        calls[i].key = calls[j].key <=> KeyValues(calls[i]) = KeyValues(calls[j])

\* two calls with different start and end got the same key, the later one
\* for an end that was within the live window at the time of the earlier call
C18_Witness ==
    /\ Len(calls) = 2
    /\ calls[1].key = calls[2].key
    /\ calls[1].start # calls[2].start
    /\ calls[1].end # calls[2].end
    /\ calls[1].time - calls[2].end < LIVE_WINDOW
    /\ calls[2].time - calls[2].end >= LIVE_WINDOW

\* C12: no failure inside get_historical_data leaves it as an exception.
C12_NoExceptionPropagates == program = "historicaldata" => pc # "raised"

\* the write of the cache file of the chunk just fetched failed
WriteFailed(chunk) == chunk.write \in {"open_fails", "dump_fails"}

RECURSIVE Merged(_, _)
\* the candles of the chunks in their order, without those already seen,
\* whatever became of the cache writes
Merged(cs, seen) ==
    IF cs = <<>> THEN <<>>
    ELSE Unseen(Head(cs).candles, seen)
         \o Merged(Tail(cs), seen \cup Keys(Head(cs).candles))

\* C14: when the write of a cache file fails, the call goes on as after a
\* write that succeeded: the new candles of the chunk are added to the result
\* and the loop continues, and the sequence returned is the one made of the
\* candles of all chunks.
C14_WriteFailureKeepsResult ==
    /\ [][FetchStep /\ WriteFailed(Last(chunks'))
          => /\ pc' = "loop"
             /\ all_candles'
                   = all_candles \o Unseen(Last(chunks').candles, seen_candles)
             /\ seen_candles'
                   = seen_candles \cup Keys(Last(chunks').candles)
             /\ current_start' = current_end]_vars
    /\ [](Returned => result = SortByStart(Merged(chunks, {})))

\* a call returned the candle of a chunk whose cache write had failed
C14_Witness ==
    /\ Returned
    /\ \E i \in DOMAIN chunks :
          /\ WriteFailed(chunks[i])
          /\ chunks[i].candles # <<>>
          /\ Range(chunks[i].candles) \subseteq Range(result)

\* a caller has finished the one operation that was made on the file
Alone(p, op) ==
    /\ program = "cache_files"
    /\ fs.nops = 1
    /\ fs.procs[p].op = op
    /\ fs.procs[p].pc = "done"

\* C13: a lookup that finds a cache file that is not JSON, or lacks the
\* timestamp or the candles member, reports a miss and leaves no file behind.
C13_UnreadableFileRemoved ==
    \A p \in Procs :
        /\ Alone(p, "get")
        /\ FsFile \in DOMAIN fs.init
        /\ Unreadable(fs.init[FsFile])
        => /\ fs.procs[p].ret = "miss"
           /\ FsFile \notin DOMAIN fs.dir

\* C15: a cache write that failed leaves the directory as it was before the
\* write.
C15_FailedWriteKeepsEntries ==
    Alone(Writer, "put") /\ fs.procs[Writer].ret = "write_failed"
        => fs.dir = fs.init

\* C16: a reader never reads a file that the writer has opened and not yet
\* completed, and what the writer writes is in the file when it has finished.
C16_NoPartialRead ==
    /\ \A p \in Procs : ~fs.procs[p].torn
    /\ fs.procs[Writer].ret # "lost"

\* C17: when only readers use the file, no lookup ends with an exception,
\* whichever of them removes the file first.
C17_RemovedFileIsPlainMiss ==
    program = "cache_files" /\ ~fs.wrote
        => \A p \in Procs : fs.procs[p].ret # "raised"

\* C21: every chunk of a request with start_date < end_date has, in the unix
\* seconds given to the cache lookup and to the upstream call, an end that is
\* greater than its start.
C21_NoZeroDurationChunk ==
    program = "planner" /\ req.start_date < req.end_date
        => \A i \in DOMAIN chunks : chunks[i].start < chunks[i].end

ClearStep == Len(clears') = Len(clears) + 1

CacheEntries(files) == {f \in DOMAIN files : endswith(f, ".json")}

\* C22: clear_cache removes every cache entry and nothing else, so that the
\* lookup of each chunk of the last call is a miss afterwards; on a directory
\* without entries it changes nothing, and get_historical_data is left where
\* it was.
C22_ClearCacheEmptiesAndIsIdempotent ==
    [][ClearStep
       => /\ CacheEntries(cache') = {}
          /\ \A f \in DOMAIN cache \ CacheEntries(cache) :
                f \in DOMAIN cache' /\ cache'[f] = cache[f]
          /\ \A i \in DOMAIN chunks :
                ~_get_cached_data(cache', chunks[i].key, chunks[i].end, now).ret.hit
          /\ clear_cache(cache') = cache'
          /\ (CacheEntries(cache) = {} => cache' = cache)
          /\ pc' = pc]_vars

\* clear_cache removed two entries and, called again, none
C22_Witness ==
    /\ Len(clears) = 2
    /\ clears[1] >= 2
    /\ clears[2] = 0
    /\ OtherFile \in DOMAIN cache
    /\ \E i \in DOMAIN chunks : chunks[i].stored

RECURSIVE Delivered(_)
\* the candles of the chunks of the call in the order of their delivery
Delivered(cs) ==
    IF cs = <<>> THEN <<>> ELSE Head(cs).candles \o Delivered(Tail(cs))

\* the candles of a sequence that have the key k, and the first of them
WithKey(candles, k) == {i \in DOMAIN candles : candle_key(candles[i]) = k}

FirstWithKey(candles, k) ==
    candles[CHOOSE i \in WithKey(candles, k) :
                \A j \in WithKey(candles, k) : i <= j]

\* C30: the result of a call holds, for every (start, close) pair that a
\* chunk of the call delivered from the cache or from upstream, exactly one
\* candle, which is the first that was delivered with the pair, and no other
\* candle.
C30_DeduplicationLosesNothing ==
    Returned
        => /\ Keys(result) = Keys(Delivered(chunks))
           /\ \A k \in Keys(Delivered(chunks)) :
                 /\ Cardinality(WithKey(result, k)) = 1
                 /\ FirstWithKey(result, k) = FirstWithKey(Delivered(chunks), k)

\* a result with two candles of the same start and different close, one of
\* which was delivered a second time with another volume
C30_Witness ==
    /\ Returned
    /\ \E i, j \in DOMAIN result :
          result[i].start = result[j].start /\ result[i].close # result[j].close
    /\ \E i, j \in DOMAIN Delivered(chunks) :
          /\ i < j
          /\ candle_key(Delivered(chunks)[i]) = candle_key(Delivered(chunks)[j])
          /\ Delivered(chunks)[i] # Delivered(chunks)[j]
          /\ Delivered(chunks)[i] \in Range(result)

\* C29: every chunk that get_historical_data stored was stored under the
\* hour-rounded key of its bounds, the key that a request for the same chunk
\* computes once the chunk is outside the live window.
C29_StoredUnderHourKey ==
    program = "historicaldata"
        => \A i \in DOMAIN chunks :
              chunks[i].stored
                  => CacheFile(chunks[i].key)
                        = HourKeyFile(req, chunks[i].start, chunks[i].end)

\* C28: a call of fetch_coinbase_data ends, whatever the upstream calls do:
\* every pass of the outer loop ends the loop or moves current_end down by
\* 350 hours, or less when that reaches start, and no chunk is attempted more
\* than max_retries times.
C28_PaginationTerminates ==
    /\ tr.pc # "idle" ~> tr.pc = "end"
    /\ [](Len(tr.attempts) <= max_retries)
    /\ [][tr.pc = "after" /\ tr'.pc # "after"
          => \/ tr'.pc = "end"
             \/ /\ tr'.current_end < tr.current_end
                /\ tr'.current_end > tr.start
                /\ tr.current_end - tr'.current_end
                      = timedelta_hours(TREND_CHUNK_HOURS)]_vars
    /\ [][tr.pc = "after" /\ tr'.pc = "end" /\ ~tr'.failed
          => /\ tr'.current_end = tr.start
             /\ tr.current_end - tr'.current_end
                   <= timedelta_hours(TREND_CHUNK_HOURS)]_vars

\* a range of two chunks was walked down to its start, the last chunk at the
\* third attempt
C28_Witness ==
    /\ tr.pc = "end"
    /\ ~tr.failed
    /\ tr.current_end = tr.start
    /\ tr.end - tr.start > timedelta_hours(TREND_CHUNK_HOURS)
    /\ Len(tr.attempts) = max_retries

\* C23: close_all_positions returns when its timeout has passed at the
\* latest, whatever the tasks that are still pending or running do, and a
\* task that was not done by then sends no order afterwards.
C23_TimeoutHonoured ==
    program = "close_all_positions" /\ svc.pc = "returned"
        => /\ svc.returned_at - svc.start_time <= svc.timeout
           /\ \A position \in svc.not_done : ~svc.tasks[position].late

\* C25: a close task sends its orders for 100%, 99%, 98% and 95% of the
\* position in this order and no more than these, sends none after an order
\* that was accepted or that was rejected for another reason than insufficient
\* funds, and returns True exactly when one of its orders was accepted.
C25_CloseLadder ==
    program = "close_all_positions" /\ svc.pc # "idle"
        => \A position \in Positions :
              LET t == svc.tasks[position] IN
              /\ t.tried = SubSeq(size_percentages, 1, Len(t.tried))
              /\ Len(t.tried) <= 4
              /\ ~t.sent_after_accepted
              /\ t.state = "running" /\ t.tried # <<>>
                    => \/ t.last.shape = "raises"
                       \/ t.last.error = "PREVIEW_INSUFFICIENT_FUNDS"
              /\ t.state = "done" => (t.ret = "True" <=> t.accepted > 0)

FinalStatuses == {"FILLED", "CANCELLED", "EXPIRED", "FAILED"}

\* the status requests are made while the elapsed time is below max_wait_time,
\* each 5 seconds after the one before was answered, and no request cancels
\* the order
PollsAtFixedInterval ==
    /\ \A i \in DOMAIN svc.polls :
          svc.polls[i].at - svc.start_time < svc.max_wait_time
    /\ \A i \in 1..(Len(svc.polls) - 1) :
          svc.polls[i + 1].at = svc.polls[i].answered + check_interval
    /\ \A i \in DOMAIN svc.requests :
          svc.requests[i].call \in {"get_order", "trigger_bracket_order_gtd"}

NoFinalStatus ==
    \A i \in DOMAIN svc.polls : svc.polls[i].status \notin FinalStatuses

\* C24 as claimed: the monitor polls at the fixed interval while the wait
\* lasts, never cancels the order, and returns the status "timeout" whenever
\* it ends without having seen the order filled, cancelled, expired or failed.
C24_TimeoutUnlessFinalStatus ==
    program = "monitor" /\ svc.pc # "idle"
        => /\ PollsAtFixedInterval
           /\ svc.pc = "done" /\ NoFinalStatus => svc.status = "timeout"

\* C24: the monitor polls at the fixed interval while the wait lasts, never
\* cancels the order, and when it ends without having seen the order filled,
\* cancelled, expired or failed it returns the status "error" if its last
\* status request raised and the status "timeout" otherwise.
C24_TimeoutOrRequestError ==
    program = "monitor" /\ svc.pc # "idle"
        => /\ PollsAtFixedInterval
           /\ svc.pc = "done" /\ NoFinalStatus
                 => svc.status = IF svc.polls # <<>>
                                    /\ Last(svc.polls).status = "raises"
                                 THEN "error" ELSE "timeout"

\* the wait ended after two status requests, the first of which took a
\* second to answer
C24_Witness ==
    /\ program = "monitor"
    /\ svc.pc = "done"
    /\ svc.status = "timeout"
    /\ Len(svc.polls) = 2
    /\ svc.polls[1].answered > svc.polls[1].at

Brackets ==
    {i \in DOMAIN svc.requests :
        svc.requests[i].call = "trigger_bracket_order_gtd"}

\* C26: the monitor sends at most one bracket order, only right after a
\* status request that reported FILLED, on the side opposite to that of the
\* limit order; it sends none when the order was cancelled, expired or failed
\* or the wait timed out.
C26_BracketOnlyAfterFill ==
    program = "monitor" /\ svc.pc # "idle"
        => /\ Cardinality(Brackets) <= 1
           /\ \A i \in Brackets :
                 /\ i = Len(svc.requests)
                 /\ i > 1 /\ svc.requests[i - 1].call = "get_order"
                 /\ Last(svc.polls).status = "FILLED"
                 /\ svc.requests[i].side \in OrderSides \ {svc.order_side}
           /\ svc.status \in {"cancelled", "timeout"} => Brackets = {}
           /\ \A i \in DOMAIN svc.polls :
                 svc.polls[i].status \in {"CANCELLED", "EXPIRED", "FAILED"}
                    => Brackets = {}

\* a BUY order was seen filled at the second status request and the bracket
\* order was sent as a SELL
C26_Witness ==
    /\ program = "monitor"
    /\ svc.pc = "done"
    /\ svc.order_side = "BUY"
    /\ Len(svc.polls) = 2
    /\ \E i \in Brackets : svc.requests[i].side = "SELL"

\* the request of the call with this name, which was answered without error
Sent(call) == {i \in DOMAIN svc.requests : svc.requests[i].call = call}

Accepted(i) ==
    svc.requests[i].answer.shape # "raises" /\ ~svc.requests[i].answer.error

\* C27: the requests are made in the order preview, market order, status,
\* bracket order; the market order is sent only after a preview without
\* error, the bracket order only after a market order that was accepted and
\* gave its order id and was seen FILLED; the result has the status "success"
\* only when both orders were placed, and an error member otherwise.
C27_PreviewMarketStatusBracket ==
    program = "place_market_order" /\ svc.pc # "idle"
        => /\ \A i \in DOMAIN svc.requests :
                 svc.requests[i].call
                    = <<"preview_market_order", "market_order", "get_order",
                        "trigger_bracket_order_gtd">>[i]
           /\ Sent("market_order") # {} => Accepted(1)
           /\ Sent("trigger_bracket_order_gtd") # {}
                 => /\ Accepted(2)
                    /\ svc.requests[2].answer.order_id
                    /\ svc.requests[3].status = "FILLED"
           /\ svc.pc = "done" /\ svc.status = "success"
                 => Len(svc.requests) = 4 /\ Accepted(2) /\ Accepted(4)
           /\ svc.pc = "done" /\ svc.status # "success" => svc.error

====
